---- MODULE Spec2Model ----
(***************************************************************************)
(* Model of the typed-field parsing framework of arduino-dsmr              *)
(* (src/dsmr/fields.h): the six field-type strategies and the field        *)
(* catalog.  A value token is a sequence of one-character strings, a       *)
(* cursor is a 1-based index into it, and the end of a span is Len + 1.    *)
(* The primitive scanners (parser.h) and concat_hack (util.h) are          *)
(* collaborators of fields.h.                                              *)
(***************************************************************************)
EXTENDS Integers, Sequences, FiniteSets, TLC

\* Number of parse calls made on the records in one behaviour.
MaxCalls == 2

\* uint32_t (FixedValue::_value, ParseResult<uint32_t>) is kept as a pair
\* <<high half, low half>> of 16-bit halves, so that 32-bit wrap-around
\* is computed without leaving the model checker's integer range.
Half == 65536

U32(n) == <<(n \div Half) % Half, n % Half>>

\* value *= 10; value += d;  in uint32_t arithmetic.
MulAdd10(v, d) ==
    LET lo == v[2] * 10 + d
        hi == v[1] * 10 + (lo \div Half)
    IN  <<hi % Half, lo % Half>>

\* Cursor value of a ParseResult that was never positioned (NULL).
NoPos == 0

Digits == <<"0", "1", "2", "3", "4", "5", "6", "7", "8", "9">>

IsDigit(c) == \E i \in 1..10 : Digits[i] = c

DigitVal(c) == (CHOOSE i \in 1..10 : Digits[i] = c) - 1

\* ---------------------------------------------------------------------
\* ParseResult<T>: result, next (cursor after the token), err, ctx
\* (failing position).
\* ---------------------------------------------------------------------
Succeed(result, next) ==
    [err |-> "None", result |-> result, next |-> next, ctx |-> NoPos]

Fail(err, ctx, empty) ==
    [err |-> err, result |-> empty, next |-> NoPos, ctx |-> ctx]

\* Conversion ParseResult<T> -> ParseResult<void>: the value payload is
\* dropped, error and cursors are kept.
ToVoid(res) == [err |-> res.err, next |-> res.next, ctx |-> res.ctx]

\* ---------------------------------------------------------------------
\* util.h: concat_hack(String &s, const char *append, size_t n)
\* appends n bytes to s.
\* ---------------------------------------------------------------------
concat_hack(s, tok, from, n) == s \o SubSeq(tok, from, from + n - 1)

\* ---------------------------------------------------------------------
\* parser.h: StringParser::parse_string(min, max, str, end)
\* ---------------------------------------------------------------------
\* while (str_end < end && *str_end != ')') ++str_end;
FindClose(tok, pos) ==
    LET closes == {i \in pos..Len(tok) : tok[i] = ")"} IN
    IF closes = {} THEN Len(tok) + 1
    ELSE CHOOSE i \in closes : \A j \in closes : i <= j

parse_string(min, max, tok, str) ==
    LET end == Len(tok) + 1 IN
    IF str >= end \/ tok[str] # "("
    THEN Fail("InvalidFormat", str, <<>>)
    ELSE LET str_start == str + 1
             str_end   == FindClose(tok, str_start)
             len       == str_end - str_start
         IN  IF str_end = end
             THEN Fail("InvalidFormat", str_end, <<>>)
             ELSE IF len < min \/ len > max
                  THEN Fail("InvalidLength", str_start, <<>>)
                  ELSE Succeed(concat_hack(<<>>, tok, str_start, len),
                               str_end + 1)

\* ---------------------------------------------------------------------
\* parser.h: NumParser::parse(max_decimals, unit, str, end)
\* ---------------------------------------------------------------------
\* Digit loop: consumes digits until a stop character, the end of the
\* span, or (left >= 0) until `left` digits were taken.  left = -1 means
\* no limit.  Returns the cursor, the value, the digits still allowed and
\* whether a non-digit was met.
RECURSIVE ScanDigits(_, _, _, _, _)
ScanDigits(tok, pos, stops, value, left) ==
    IF pos > Len(tok) \/ tok[pos] \in stops \/ left = 0
    THEN [bad |-> FALSE, pos |-> pos, value |-> value, left |-> left]
    ELSE IF ~IsDigit(tok[pos])
         THEN [bad |-> TRUE, pos |-> pos, value |-> value, left |-> left]
         ELSE ScanDigits(tok, pos + 1, stops,
                         MulAdd10(value, DigitVal(tok[pos])),
                         IF left > 0 THEN left - 1 ELSE left)

RECURSIVE FillDecimals(_, _)
FillDecimals(value, left) ==
    IF left <= 0 THEN value ELSE FillDecimals(MulAdd10(value, 0), left - 1)

\* Unit loop: compares the span with the unit label character by
\* character; returns the cursor and the index of the first unmatched
\* unit character, or mismatch.
RECURSIVE MatchUnit(_, _, _, _)
MatchUnit(tok, pos, unit, i) ==
    IF pos <= Len(tok) /\ tok[pos] # ")" /\ i <= Len(unit)
    THEN IF tok[pos] # unit[i]
         THEN [mismatch |-> TRUE, pos |-> pos + 1, i |-> i + 1]
         ELSE MatchUnit(tok, pos + 1, unit, i + 1)
    ELSE [mismatch |-> FALSE, pos |-> pos, i |-> i]

NumParse(max_decimals, unit, tok, str) ==
    LET end == Len(tok) + 1 IN
    IF str >= end \/ tok[str] # "("
    THEN Fail("InvalidFormat", str, U32(0))
    ELSE
    LET ip == ScanDigits(tok, str + 1, {"*", ".", ")"}, U32(0), -1) IN
    IF ip.bad THEN Fail("InvalidFormat", ip.pos, U32(0))
    ELSE
    LET hasDec == max_decimals > 0 /\ ip.pos < end /\ tok[ip.pos] = "."
        dp == IF hasDec
              THEN ScanDigits(tok, ip.pos + 1, {"*", ")"}, ip.value,
                              max_decimals)
              ELSE [bad |-> FALSE, pos |-> ip.pos, value |-> ip.value,
                    left |-> max_decimals]
    IN
    IF dp.bad THEN Fail("InvalidFormat", dp.pos, U32(0))
    ELSE
    LET value == FillDecimals(dp.value, dp.left)
        noStar == unit # <<>> /\ (dp.pos >= end \/ tok[dp.pos] # "*")
        unit_start == dp.pos + 1
        um == IF unit # <<>> /\ ~noStar
              THEN MatchUnit(tok, unit_start, unit, 1)
              ELSE [mismatch |-> FALSE, pos |-> dp.pos, i |-> Len(unit) + 1]
    IN
    IF noStar THEN Fail("InvalidFormat", dp.pos, U32(0))
    ELSE IF um.mismatch \/ um.i <= Len(unit)
         THEN Fail("UnitMismatch", unit_start, U32(0))
         ELSE IF um.pos >= end \/ tok[um.pos] # ")"
              THEN Fail("InvalidFormat", um.pos, U32(0))
              ELSE Succeed(value, um.pos + 1)

\* ---------------------------------------------------------------------
\* fields.h: unit labels
\* ---------------------------------------------------------------------
units ==
    [none  |-> <<>>,
     kWh   |-> <<"k", "W", "h">>,
     Wh    |-> <<"W", "h">>,
     kW    |-> <<"k", "W">>,
     W     |-> <<"W">>,
     V     |-> <<"V">>,
     mV    |-> <<"m", "V">>,
     A     |-> <<"A">>,
     mA    |-> <<"m", "A">>,
     m3    |-> <<"m", "3">>,
     dm3   |-> <<"d", "m", "3">>,
     GJ    |-> <<"G", "J">>,
     MJ    |-> <<"M", "J">>,
     kvar  |-> <<"k", "v", "a", "r">>,
     kvarh |-> <<"k", "v", "a", "r", "h">>,
     Hz    |-> <<"H", "z">>]

\* A template argument that the DEFINE_FIELD line does not supply.
Absent == <<"<absent>">>

\* The unit pointer a scanner call receives for a template argument; an
\* argument that is not supplied is passed as a null unit.
UnitArg(u) == IF u = Absent THEN <<>> ELSE u

\* ObisId(a, b, c, d, e): the sixth component defaults to 255.
ObisId5(a, b, c, d, e) == <<a, b, c, d, e, 255>>

\* The id meaning "match positionally as the first telegram line".
Sentinel == <<255, 255, 255, 255, 255, 255>>

\* Variant: the id keeps only the first four components of obis.
Field_IdTruncated(name, id, kind, unit, int_unit, minlen, maxlen) ==
    [name |-> name, id |-> <<id[1], id[2], id[3], id[4], 255, 255>>,
     kind |-> kind, unit |-> unit, int_unit |-> int_unit,
     minlen |-> minlen, maxlen |-> maxlen]

\* DEFINE_FIELD(fieldname, value_t, obis, field_t, field_args...)
Field(name, id, kind, unit, int_unit, minlen, maxlen) ==
    [name |-> name, id |-> id, kind |-> kind, unit |-> unit,
     int_unit |-> int_unit, minlen |-> minlen, maxlen |-> maxlen]

\* The field catalog, in declaration order.
Catalog ==
    <<
       Field("identification", <<255, 255, 255, 255, 255, 255>>, "Raw", Absent, Absent, 0, 0),
       Field("timestamp", ObisId5(0, 0, 1, 0, 0), "Timestamp", Absent, Absent, 13, 13),
       Field("equipment_id", ObisId5(0, 0, 96, 1, 0), "String", Absent, Absent, 0, 96),
       Field("energy_delivered_lux", ObisId5(1, 0, 1, 8, 0), "Fixed", units.kWh, units.Wh, 0, 0),
       Field("energy_delivered_tariff1", ObisId5(1, 0, 1, 8, 1), "Fixed", units.kWh, units.Wh, 0, 0),
       Field("energy_delivered_tariff2", ObisId5(1, 0, 1, 8, 2), "Fixed", units.kWh, units.Wh, 0, 0),
       Field("energy_returned_lux", ObisId5(1, 0, 2, 8, 0), "Fixed", units.kWh, units.Wh, 0, 0),
       Field("energy_returned_tariff1", ObisId5(1, 0, 2, 8, 1), "Fixed", units.kWh, units.Wh, 0, 0),
       Field("energy_returned_tariff2", ObisId5(1, 0, 2, 8, 2), "Fixed", units.kWh, units.Wh, 0, 0),
       Field("total_imported_energy", ObisId5(1, 0, 3, 8, 0), "Fixed", units.kvarh, units.kvarh, 0, 0),
       Field("total_exported_energy", ObisId5(1, 0, 4, 8, 0), "Fixed", units.kvarh, units.kvarh, 0, 0),
       Field("electricity_tariff", ObisId5(0, 0, 96, 14, 0), "String", Absent, Absent, 4, 4),
       Field("power_delivered", ObisId5(1, 0, 1, 7, 0), "Fixed", units.kW, units.W, 0, 0),
       Field("power_returned", ObisId5(1, 0, 2, 7, 0), "Fixed", units.kW, units.W, 0, 0),
       Field("electricity_threshold", ObisId5(0, 0, 17, 0, 0), "Fixed", units.kW, units.W, 0, 0),
       Field("message_long", ObisId5(0, 0, 96, 13, 0), "String", Absent, Absent, 0, 2048),
       Field("voltage_l1", ObisId5(1, 0, 32, 7, 0), "Fixed", units.V, units.mV, 0, 0),
       Field("voltage_l2", ObisId5(1, 0, 52, 7, 0), "Fixed", units.V, units.mV, 0, 0),
       Field("voltage_l3", ObisId5(1, 0, 72, 7, 0), "Fixed", units.V, units.mV, 0, 0),
       Field("current_l1", ObisId5(1, 0, 31, 7, 0), "Fixed", units.A, units.mA, 0, 0),
       Field("current_l2", ObisId5(1, 0, 51, 7, 0), "Fixed", units.A, units.mA, 0, 0),
       Field("current_l3", ObisId5(1, 0, 71, 7, 0), "Fixed", units.A, units.mA, 0, 0),
       Field("energy_combined_total", ObisId5(1, 0, 15, 8, 0), "Fixed", units.kWh, units.Wh, 0, 0),
       Field("maximum_current_l1", ObisId5(1, 0, 31, 4, 0), "Fixed", units.A, units.mA, 0, 0),
       Field("maximum_current_l2", ObisId5(1, 0, 51, 4, 0), "Fixed", units.A, units.mA, 0, 0),
       Field("maximum_current_l3", ObisId5(1, 0, 71, 4, 0), "Fixed", units.A, units.mA, 0, 0),
       Field("frequency", ObisId5(1, 0, 14, 7, 0), "Fixed", units.Hz, Absent, 0, 0),
       Field("power_factor", ObisId5(1, 0, 13, 7, 0), "Raw", Absent, Absent, 0, 0),
       Field("power_factor_l1", ObisId5(1, 0, 33, 7, 0), "Raw", Absent, Absent, 0, 0),
       Field("power_factor_l2", ObisId5(1, 0, 53, 7, 0), "Raw", Absent, Absent, 0, 0),
       Field("power_factor_l3", ObisId5(1, 0, 73, 7, 0), "Raw", Absent, Absent, 0, 0),
       Field("monthly_datas", ObisId5(0, 0, 98, 1, 0), "String", Absent, Absent, 0, 2048),
       Field("COSEM_logical_device_name", ObisId5(0, 0, 42, 0, 0), "String", Absent, Absent, 0, 64),
       Field("breaker_status", ObisId5(0, 0, 96, 50, 68), "String", Absent, Absent, 0, 2048)
    >>

\* Instantiations of the two strategies no catalog entry is bound to:
\* TimestampedFixedField (the m3 reading of the comment above it) and
\* IntField without a unit.
TemplateInstances ==
    <<
       Field("timestamped_fixed", ObisId5(0, 1, 24, 2, 1), "TimestampedFixed",
             units.m3, units.dm3, 0, 0),
       Field("int_field", ObisId5(0, 0, 96, 7, 21), "Int",
             units.none, Absent, 0, 0)
    >>

Entries == Catalog \o TemplateInstances

FieldNames == {Entries[i].name : i \in 1..Len(Entries)}

Def(f) == Entries[CHOOSE i \in 1..Len(Entries) : Entries[i].name = f]

\* ---------------------------------------------------------------------
\* fields.h: the field-type strategies.  A record is the storage a
\* DEFINE_FIELD struct holds: val (the value slot; for FixedValue its
\* _value), timestamp (TimestampedFixedValue only) and present.  Each
\* parse operator returns the record after the call, the
\* ParseResult<void> it returns and the scanner calls it made.
\* ---------------------------------------------------------------------
Outcome(rec, res, tried) == [rec |-> rec, res |-> res, tried |-> tried]

\* Variant: the slot is assigned whether or not the scanner failed.
StringField_parse_Unconditional(rec, minlen, maxlen, tok, str) ==
    LET res == parse_string(minlen, maxlen, tok, str) IN
    Outcome([rec EXCEPT !.val = res.result], ToVoid(res), <<"string">>)

StringField_parse(rec, minlen, maxlen, tok, str) ==
    LET res == parse_string(minlen, maxlen, tok, str) IN
    IF res.err = "None"
    THEN Outcome([rec EXCEPT !.val = res.result], ToVoid(res), <<"string">>)
    ELSE Outcome(rec, ToVoid(res), <<"string">>)

\* Variant: the integer form is tried before the float form.
FixedField_parse_IntFirst(rec, unit, int_unit, tok, str) ==
    LET res_float == NumParse(3, UnitArg(unit), tok, str)
        res_int   == NumParse(0, UnitArg(int_unit), tok, str)
    IN
    IF res_int.err = "None"
    THEN Outcome([rec EXCEPT !.val = res_int.result], ToVoid(res_int),
                 <<"int">>)
    ELSE IF res_float.err = "None"
         THEN Outcome([rec EXCEPT !.val = res_float.result],
                      ToVoid(res_float), <<"int", "float">>)
         ELSE Outcome(rec, ToVoid(res_float), <<"int", "float">>)

\* Variant: when both attempts fail, the last attempt's error is returned.
FixedField_parse_IntError(rec, unit, int_unit, tok, str) ==
    LET res_float == NumParse(3, UnitArg(unit), tok, str)
        res_int   == NumParse(0, UnitArg(int_unit), tok, str)
    IN
    IF res_float.err = "None"
    THEN Outcome([rec EXCEPT !.val = res_float.result], ToVoid(res_float),
                 <<"float">>)
    ELSE IF res_int.err = "None"
         THEN Outcome([rec EXCEPT !.val = res_int.result], ToVoid(res_int),
                      <<"float", "int">>)
         ELSE Outcome(rec, ToVoid(res_int), <<"float", "int">>)

FixedField_parse(rec, unit, int_unit, tok, str) ==
    LET res_float == NumParse(3, UnitArg(unit), tok, str)
        res_int   == NumParse(0, UnitArg(int_unit), tok, str)
    IN
    IF res_float.err = "None"
    THEN Outcome([rec EXCEPT !.val = res_float.result], ToVoid(res_float),
                 <<"float">>)
    ELSE IF res_int.err = "None"
         THEN Outcome([rec EXCEPT !.val = res_int.result], ToVoid(res_int),
                      <<"float", "int">>)
         ELSE Outcome(rec, ToVoid(res_float), <<"float", "int">>)

\* Variant: a failed timestamp scan does not return early.
TimestampedFixedField_parse_NoShortCircuit(rec, unit, int_unit, tok, str) ==
    LET res     == parse_string(13, 13, tok, str)
        stamped == [rec EXCEPT !.timestamp = res.result]
        from    == IF res.err = "None" THEN res.next ELSE str
        fixed   == FixedField_parse(stamped, unit, int_unit, tok, from)
    IN  Outcome(fixed.rec, fixed.res, <<"timestamp">> \o fixed.tried)

TimestampedFixedField_parse(rec, unit, int_unit, tok, str) ==
    LET res == parse_string(13, 13, tok, str) IN
    IF res.err # "None"
    THEN Outcome(rec, ToVoid(res), <<"timestamp">>)
    ELSE LET stamped == [rec EXCEPT !.timestamp = res.result]
             fixed   == FixedField_parse(stamped, unit, int_unit, tok,
                                         res.next)
         IN  Outcome(fixed.rec, fixed.res, <<"timestamp">> \o fixed.tried)

IntField_parse(rec, unit, tok, str) ==
    LET res == NumParse(0, UnitArg(unit), tok, str) IN
    IF res.err = "None"
    THEN Outcome([rec EXCEPT !.val = res.result], ToVoid(res), <<"int">>)
    ELSE Outcome(rec, ToVoid(res), <<"int">>)

\* Variant: parse marks the record present itself.
RawField_parse_SetsPresent(rec, tok, str) ==
    LET end == Len(tok) + 1 IN
    Outcome([rec EXCEPT !.val = concat_hack(rec.val, tok, str, end - str),
                        !.present = TRUE],
            [err |-> "None", next |-> end, ctx |-> NoPos], <<>>)

RawField_parse(rec, tok, str) ==
    LET end == Len(tok) + 1 IN
    Outcome([rec EXCEPT !.val = concat_hack(rec.val, tok, str, end - str)],
            [err |-> "None", next |-> end, ctx |-> NoPos], <<>>)

\* ---------------------------------------------------------------------
\* Storage of a freshly constructed record.  String slots are empty and
\* present is false (member initialiser); a uint32_t slot has no
\* initialiser, so it holds whatever the memory held.
\* ---------------------------------------------------------------------
NumericKinds == {"Fixed", "TimestampedFixed", "Int"}

Indeterminate == {U32(0), <<57005, 48879>>}

Fresh(kind, garbage) ==
    [val       |-> IF kind \in NumericKinds THEN garbage ELSE <<>>,
     timestamp |-> <<>>,
     present   |-> FALSE]

\* ---------------------------------------------------------------------
\* Value tokens handed to parse.
\* ---------------------------------------------------------------------
Paren(x) == <<"(">> \o x \o <<")">>

Star(num, unit) == num \o <<"*">> \o unit

Rep(n) == [i \in 1..n |-> "a"]

\* Decimal literals: integer digits, whether a "." follows, and the
\* fraction digits.
Num(int, dot, frac) == [int |-> int, dot |-> dot, frac |-> frac]

Render(n) == n.int \o (IF n.dot THEN <<".">> \o n.frac ELSE <<>>)

Numbers ==
    {Num(<<"0", "0", "0", "4", "4", "1">>, TRUE, <<"8", "7", "9">>),
     Num(<<"0", "0", "0", "4", "4", "1", "8", "7", "9">>, FALSE, <<>>),
     Num(<<"1">>, TRUE, <<"5">>),
     Num(<<"1", "2">>, FALSE, <<>>),
     Num(<<"1">>, TRUE, <<"2", "3", "4", "5">>),
     Num(<<"4", "2", "9", "4", "9", "6", "7">>, TRUE, <<"2", "9", "7">>),
     Num(<<"4", "2", "9", "4", "9", "6", "7", "2", "9", "7">>, FALSE, <<>>)}

Stamp == <<"1", "5", "0", "1", "1", "7", "1", "8", "0", "0", "0", "0", "W">>

MWh == <<"M", "W", "h">>

NumTokens(unit, int_unit) ==
    {Paren(Star(Render(n), u)) : n \in Numbers,
                                 u \in {UnitArg(unit), UnitArg(int_unit)}}
    \cup {Paren(Star(<<"1", ".", "5">>, MWh)),
          Paren(<<"1", "2">>),
          Paren(Star(<<"1", "x">>, UnitArg(unit))),
          Star(<<"1", ".", "5">>, UnitArg(unit)) \o <<")">>,
          <<"(">> \o Star(<<"1", ".", "5">>, UnitArg(unit))}

StringTokens(minlen, maxlen) ==
    {Paren(Rep(minlen)), Paren(Rep(maxlen)), Paren(Rep(maxlen + 1)),
     Paren(Stamp), Paren(<<"0", "0", "0", "1">>),
     <<"(", "a">>, <<"a", ")">>, <<>>}
    \cup (IF minlen > 0 THEN {Paren(Rep(minlen - 1))} ELSE {})

StampedTokens(unit, int_unit) ==
    {ts \o num :
        ts \in {Paren(Stamp), Paren(Rep(13)), Paren(Rep(12)), <<>>},
        num \in {Paren(Star(<<"0", "0", "4", "7", "3", ".", "7", "8", "9">>,
                            unit)),
                 Paren(Star(<<"4", "7", "3", "7", "8", "9">>, int_unit)),
                 Paren(Star(<<"1", ".", "5">>, MWh)),
                 <<>>}}

RawTokens ==
    {<<>>, <<"/", "K", "5">>, Paren(<<"0", ".", "9">>)}

Inputs(f) ==
    LET d == Def(f) IN
    CASE d.kind = "Raw"              -> RawTokens
      [] d.kind \in {"String", "Timestamp"}
                                     -> StringTokens(d.minlen, d.maxlen)
      [] d.kind = "Fixed"            -> NumTokens(d.unit, d.int_unit)
      [] d.kind = "TimestampedFixed" -> StampedTokens(d.unit, d.int_unit)
      [] d.kind = "Int"              -> NumTokens(d.unit, units.W)

\* ---------------------------------------------------------------------
\* State: the records of one parsed-data object (the identification
\* record and one further record), the last parse call and its result,
\* and the number of calls made.
\* ---------------------------------------------------------------------
VARIABLES recs, last, calls

vars == <<recs, last, calls>>

NoCall ==
    [field |-> "", tok |-> <<>>,
     res |-> [err |-> "None", next |-> NoPos, ctx |-> NoPos],
     tried |-> <<>>, before |-> Fresh("Raw", U32(0))]

Init ==
    /\ \E f \in FieldNames, garbage \in Indeterminate :
          recs = [g \in {"identification", f} |-> Fresh(Def(g).kind, garbage)]
    /\ last = NoCall
    /\ calls = 0

\* One call of f's parse on the span [tok, end).
Call(f, tok, out) ==
    /\ calls < MaxCalls
    /\ recs' = [recs EXCEPT ![f] = out.rec]
    /\ last' = [field |-> f, tok |-> tok, res |-> out.res,
                tried |-> out.tried, before |-> recs[f]]
    /\ calls' = calls + 1

ParseStringField ==
    \E f \in DOMAIN recs : \E tok \in Inputs(f) :
        /\ Def(f).kind \in {"String", "Timestamp"}
        /\ Call(f, tok, StringField_parse(recs[f], Def(f).minlen,
                                          Def(f).maxlen, tok, 1))

ParseFixedField ==
    \E f \in DOMAIN recs : \E tok \in Inputs(f) :
        /\ Def(f).kind = "Fixed"
        /\ Call(f, tok, FixedField_parse(recs[f], Def(f).unit,
                                         Def(f).int_unit, tok, 1))

ParseTimestampedFixedField ==
    \E f \in DOMAIN recs : \E tok \in Inputs(f) :
        /\ Def(f).kind = "TimestampedFixed"
        /\ Call(f, tok, TimestampedFixedField_parse(recs[f], Def(f).unit,
                                                    Def(f).int_unit, tok, 1))

ParseIntField ==
    \E f \in DOMAIN recs : \E tok \in Inputs(f) :
        /\ Def(f).kind = "Int"
        /\ Call(f, tok, IntField_parse(recs[f], Def(f).unit, tok, 1))

ParseRawField ==
    \E f \in DOMAIN recs : \E tok \in Inputs(f) :
        /\ Def(f).kind = "Raw"
        /\ Call(f, tok, RawField_parse(recs[f], tok, 1))

Next ==
    \/ ParseStringField
    \/ ParseFixedField
    \/ ParseTimestampedFixedField
    \/ ParseIntField
    \/ ParseRawField

Spec == Init /\ [][Next]_vars

\* =====================================================================
\* Properties
\* =====================================================================
Called == last.field # ""

LastKind == IF Called THEN Def(last.field).kind ELSE "none"

\* The exact value of a digit string, as <<high, low>> with an unbounded
\* high part: it equals the uint32_t value iff high < Half.
RECURSIVE Exact(_, _)
Exact(digits, acc) ==
    IF digits = <<>> THEN acc
    ELSE LET lo == acc[2] * 10 + DigitVal(Head(digits)) IN
         Exact(Tail(digits), <<acc[1] * 10 + (lo \div Half), lo % Half>>)

Literal(n) == Exact(n.int, <<0, 0>>)

\* The decimal value of n multiplied by 1000, missing fraction digits
\* counting as zeros (n has at most 3 fraction digits).
Scaled(n) ==
    Exact(n.int \o n.frac \o [i \in 1..(3 - Len(n.frac)) |-> "0"], <<0, 0>>)

FitsU32(v) == v[1] < Half

FloatFormToken(n, f) == Paren(Star(Render(n), Def(f).unit))

IntFormToken(n, f) == Paren(Star(Render(n), Def(f).int_unit))

\* C1: a TimestampedFixedField parse that fails leaves both the timestamp
\* and the numeric value of its slot as they were before the call.
C1_FailureWritesNeither ==
    (LastKind = "TimestampedFixed" /\ last.res.err # "None")
        => recs[last.field] = last.before

\* C2: for every FixedField entry, an integer literal (one that fits
\* uint32_t) with no fraction digits followed by the entry's small unit
\* parses successfully and the stored integer is the literal, unscaled.
C2_IntFormUnscaled ==
    (LastKind = "Fixed" /\ Def(last.field).int_unit # Absent)
        => \A n \in Numbers :
              (~n.dot /\ last.tok = IntFormToken(n, last.field)
                      /\ FitsU32(Literal(n)))
                  => /\ last.res.err = "None"
                     /\ recs[last.field].val = Literal(n)

\* C3: RawField.parse never fails and afterwards the stored string is
\* exactly the input span, whatever the slot held before.
C3_RawStoresInput ==
    LastKind = "Raw"
        => /\ last.res.err = "None"
           /\ recs[last.field].val = last.tok

\* C4 (as stated): every FixedField token with at most 3 fraction digits
\* followed by the large unit succeeds on the float-form attempt alone and
\* stores the decimal value multiplied by 1000.
C4_FloatFormAnyValue ==
    LastKind = "Fixed"
        => \A n \in Numbers :
              (Len(n.frac) <= 3 /\ last.tok = FloatFormToken(n, last.field))
                  => /\ last.res.err = "None"
                     /\ recs[last.field].val = Scaled(n)
                     /\ last.tried = <<"float">>

\* C4 (amended): every FixedField token with at most 3 fraction digits
\* followed by the large unit, whose value multiplied by 1000 is below
\* 2^32, succeeds on the float-form attempt alone (the integer-form attempt
\* is not made) and stores the decimal value multiplied by 1000.
C4_FloatForm ==
    LastKind = "Fixed"
        => \A n \in Numbers :
              (Len(n.frac) <= 3 /\ last.tok = FloatFormToken(n, last.field)
                                /\ FitsU32(Scaled(n)))
                  => /\ last.res.err = "None"
                     /\ recs[last.field].val = Scaled(n)
                     /\ last.tried = <<"float">>

C4_Witness ==
    /\ last.field = "energy_delivered_tariff1"
    /\ last.tok = Paren(<<"0", "0", "0", "4", "4", "1", ".", "8", "7", "9",
                          "*", "k", "W", "h">>)
    /\ last.res.err = "None"
    /\ recs[last.field].val = U32(441879)
    /\ last.before.val # U32(441879)

\* C5: whenever FixedField.parse fails, the result it returns is exactly
\* the float-form attempt's result (same error kind, same failing
\* position), never the integer-form attempt's.
C5_FloatErrorSurfaces ==
    (LastKind = "Fixed" /\ last.res.err # "None")
        => last.res = ToVoid(NumParse(3, UnitArg(Def(last.field).unit),
                                      last.tok, 1))

C5_Witness ==
    /\ LastKind = "Fixed"
    /\ last.tok = Paren(<<"1", ".", "5", "*", "M", "W", "h">>)
    /\ last.res.err = "UnitMismatch"
    /\ ToVoid(NumParse(0, UnitArg(Def(last.field).int_unit), last.tok, 1))
          # last.res

\* C6: for StringField, TimestampField, FixedField and IntField a parse
\* call that returns failure leaves the record's slot as it was.
C6_FailureLeavesSlot ==
    (LastKind \in {"String", "Timestamp", "Fixed", "Int"}
        /\ last.res.err # "None")
        => recs[last.field] = last.before

C6_Witness ==
    /\ LastKind \in {"String", "Timestamp"}
    /\ last.res.err = "InvalidLength"
    /\ last.before.val # <<>>
    /\ recs[last.field] = last.before

\* C7: in TimestampedFixedField.parse a failed 13-character timestamp scan
\* is returned as is, the numeric parse is not invoked, and neither the
\* stored value nor the stored timestamp changes.
C7_TimestampFailureShortCircuits ==
    (LastKind = "TimestampedFixed"
        /\ parse_string(13, 13, last.tok, 1).err # "None")
        => /\ last.res = ToVoid(parse_string(13, 13, last.tok, 1))
           /\ last.tried = <<"timestamp">>
           /\ recs[last.field] = last.before

C7_Witness ==
    /\ LastKind = "TimestampedFixed"
    /\ last.res.err = "InvalidLength"
    /\ last.before.timestamp = Stamp
    /\ last.before.val = U32(473789)
    /\ Len(last.tok) > 14

\* C8: every presence flag is false at creation and stays false under any
\* sequence of parse calls, and a parse call changes no record other than
\* the one it is called on.
C8_ParseKeepsFlagsAndFrame ==
    /\ [](\A g \in DOMAIN recs : ~recs[g].present)
    /\ [][\A g \in DOMAIN recs :
             g # last'.field => recs'[g] = recs[g]]_vars

C8_Witness ==
    /\ calls = 2
    /\ last.field # "identification"
    /\ last.res.err = "None"
    /\ recs[last.field] # last.before
    /\ recs["identification"].val = <<"/", "K", "5">>
    /\ \A g \in DOMAIN recs : ~recs[g].present

\* C9: no two catalog records have the same OBIS id, identification is
\* the only record with the all-255 sentinel id, and so matching a
\* record's non-sentinel id by equality selects that record alone.
Matching(id) == {i \in 1..Len(Catalog) : Catalog[i].id = id}

C9_IdsUnique ==
    /\ \A i, j \in 1..Len(Catalog) :
          Catalog[i].id = Catalog[j].id => i = j
    /\ \A i \in 1..Len(Catalog) :
          Catalog[i].id = Sentinel <=> Catalog[i].name = "identification"
    /\ \A g \in DOMAIN recs :
          Def(g).id # Sentinel => Cardinality(Matching(Def(g).id)) <= 1

C9_Witness ==
    /\ last.field = "power_delivered"
    /\ last.res.err = "None"
    /\ Def(last.field).id # Sentinel
    /\ Cardinality(Matching(Def(last.field).id)) = 1
    /\ \A i \in Matching(Def(last.field).id) : Catalog[i].name = last.field

\* C10: every record bound to FixedField supplies both unit parameters,
\* the large unit and the small unit.
C10_FixedHasBothUnits ==
    \A g \in DOMAIN recs :
        Def(g).kind = "Fixed"
            => Def(g).unit # Absent /\ Def(g).int_unit # Absent

====
